---- MODULE Spec2Model ----
(***************************************************************************)
(* A model of the terminal snake game: the Snake state machine             *)
(* (src/src/snake.rs), the TermManager render layer (src/src/term.rs) and  *)
(* the SnakeGame loop (src/src/game.rs).                                   *)
(*                                                                         *)
(* Three specifications share the pure operators below:                    *)
(*   SnakeSpec  the Snake API driven by arbitrary calls                    *)
(*   TermSpec   the TermManager API driven by arbitrary calls              *)
(*   GameSpec   main(): initialize, show_intro, then play() for ever       *)
(***************************************************************************)
EXTENDS Integers, Sequences, FiniteSets, TLC

(***************************************************************************)
(* Bounds of the model.                                                    *)
(***************************************************************************)
\* SnakeSpec: move_step is called with max_x = max_y = ArenaMax.
ArenaMax == 3
\* SnakeSpec: Snake::new is called with size in 1..MaxInitLen.
MaxInitLen == 3
\* SnakeSpec: grow() is not called once the body has MaxBodyLen cells.
MaxBodyLen == 6
\* SnakeSpec: at most MaxGrows calls of grow() between two moves.
MaxGrows == 2
\* TermSpec: at most MaxPrints calls of print_at between two clear() calls.
MaxPrints == 1
\* GameSpec: a round is followed for at most MaxSteps game steps.
MaxSteps == 3
\* TicksSpec: the scores of the game steps are at most MaxScore.
MaxScore == 80
\* InputSpec: at most MaxQueue key events are pressed and not yet read.
MaxQueue == 2
\* RoundSpec: a round is followed for at most MaxRoundSteps game steps.
MaxRoundSteps == 5

(***************************************************************************)
(* Types.  Coords is a pair <<x, y>> of u16; Option<T> is <<>> (None) or   *)
(* <<v>> (Some(v)), except Option<Direction>, which is "None" or the       *)
(* direction.                                                              *)
(***************************************************************************)
\* pub type TermInt = u16
TermIntRange == 65536

Directions == {"Up", "Down", "Left", "Right"}

NoneOpt == <<>>
Some(v) == <<v>>

\* `v as i16` of a u16 value
AsI16(v) == IF v >= 32768 THEN v - TermIntRange ELSE v
\* `v as TermInt` of an i16 value
AsTermInt(v) == v % TermIntRange

Contains(seq, c) == \E i \in 1..Len(seq) : seq[i] = c

(***************************************************************************)
(* Snake (src/src/snake.rs).  A snake is a record                          *)
(*   [body, direction, grow_next_move];                                    *)
(* body[1] is the tail (Rust body[0]) and body[Len(body)] the head.        *)
(***************************************************************************)
\* the `diff` of Snake::new
Snake_diff(direction) ==
    CASE direction = "Up"    -> <<0, -1>>
      [] direction = "Down"  -> <<0, 1>>
      [] direction = "Left"  -> <<-1, 0>>
      [] direction = "Right" -> <<1, 0>>

Snake_new_shifted(pos, size, direction) ==
    LET diff == Snake_diff(direction)
        cell(i) == << AsTermInt(AsI16(pos[1]) - diff[1] * i),
                      AsTermInt(AsI16(pos[2]) - diff[2] * i) >>
    IN  [ body           |-> [k \in 1..size |-> cell(size - k + 1)],
          direction      |-> direction,
          grow_next_move |-> FALSE ]

\* Snake::new: (0..size).rev() maps i = size-1 .. 0 to pos - diff * i
Snake_new(pos, size, direction) ==
    LET diff == Snake_diff(direction)
        cell(i) == << AsTermInt(AsI16(pos[1]) - diff[1] * i),
                      AsTermInt(AsI16(pos[2]) - diff[2] * i) >>
    IN  [ body           |-> [k \in 1..size |-> cell(size - k)],
          direction      |-> direction,
          grow_next_move |-> FALSE ]

Snake_old_head(s) == s.body[Len(s.body)]

\* the `new_head` of move_step.  The u16 subtraction cannot underflow where
\* move_step is called: the head has x >= 1 and y >= 1 (HeadInArena).
Snake_new_head(s) ==
    LET old_head == Snake_old_head(s)
    IN  CASE s.direction = "Up"    -> <<old_head[1], old_head[2] - 1>>
          [] s.direction = "Down"  -> <<old_head[1], old_head[2] + 1>>
          [] s.direction = "Left"  -> <<old_head[1] - 1, old_head[2]>>
          [] s.direction = "Right" -> <<old_head[1] + 1, old_head[2]>>

Snake_crashes_whole_body(s, max_x, max_y) ==
    LET new_head == Snake_new_head(s)
    IN  \/ new_head[1] = 0
        \/ new_head[2] = 0
        \/ new_head[1] > max_x
        \/ new_head[2] > max_y
        \/ Contains(s.body, new_head)

Snake_crashes_no_wall(s, max_x, max_y) ==
    LET new_head == Snake_new_head(s)
    IN  \/ new_head[1] = 0
        \/ new_head[2] = 0
        \/ Contains(Tail(s.body), new_head)

\* the crash test of move_step: a wall, or a body cell of body()[1..]
Snake_crashes(s, max_x, max_y) ==
    LET new_head == Snake_new_head(s)
    IN  \/ new_head[1] = 0
        \/ new_head[2] = 0
        \/ new_head[1] > max_x
        \/ new_head[2] > max_y
        \/ Contains(Tail(s.body), new_head)

Crashed == [kind |-> "Crashed"]
Moved(new_head, old_head, old_tail) ==
    [kind |-> "Moved", new_head |-> new_head, old_head |-> old_head,
     old_tail |-> old_tail]

Snake_move_step_keeps_flag(s, max_x, max_y) ==
    IF Snake_crashes(s, max_x, max_y)
    THEN [res |-> Crashed, snake |-> s]
    ELSE LET new_head == Snake_new_head(s)
             pushed   == Append(s.body, new_head)
         IN  IF s.grow_next_move
             THEN [res   |-> Moved(new_head, Snake_old_head(s), NoneOpt),
                   snake |-> [s EXCEPT !.body = pushed]]
             ELSE [res   |-> Moved(new_head, Snake_old_head(s), Some(pushed[1])),
                   snake |-> [s EXCEPT !.body = Tail(pushed)]]

Snake_move_step_drops_two(s, max_x, max_y) ==
    IF Snake_crashes(s, max_x, max_y)
    THEN [res |-> Crashed, snake |-> s]
    ELSE LET new_head == Snake_new_head(s)
             pushed   == Append(s.body, new_head)
         IN  IF s.grow_next_move
             THEN [res   |-> Moved(new_head, Snake_old_head(s), NoneOpt),
                   snake |-> [s EXCEPT !.body = pushed,
                                       !.grow_next_move = FALSE]]
             ELSE [res   |-> Moved(new_head, Snake_old_head(s), Some(pushed[1])),
                   snake |-> [s EXCEPT !.body = Tail(Tail(pushed))]]

\* Snake::move_step: the returned MoveResult and the snake it leaves
Snake_move_step(s, max_x, max_y) ==
    IF Snake_crashes(s, max_x, max_y)
    THEN [res |-> Crashed, snake |-> s]
    ELSE LET new_head == Snake_new_head(s)
             pushed   == Append(s.body, new_head)
         IN  IF s.grow_next_move
             THEN [res   |-> Moved(new_head, Snake_old_head(s), NoneOpt),
                   snake |-> [s EXCEPT !.body = pushed,
                                       !.grow_next_move = FALSE]]
             ELSE [res   |-> Moved(new_head, Snake_old_head(s), Some(pushed[1])),
                   snake |-> [s EXCEPT !.body = Tail(pushed)]]

\* the no-op arm of set_direction's match
Snake_is_reverse(new_direction, direction) ==
    \/ new_direction = "Up"    /\ direction = "Down"
    \/ new_direction = "Down"  /\ direction = "Up"
    \/ new_direction = "Right" /\ direction = "Left"
    \/ new_direction = "Left"  /\ direction = "Right"

Snake_set_direction_always(s, new_direction) ==
    [s EXCEPT !.direction = new_direction]

Snake_set_direction(s, new_direction) ==
    IF Snake_is_reverse(new_direction, s.direction)
    THEN s
    ELSE [s EXCEPT !.direction = new_direction]

Snake_grow(s) == [s EXCEPT !.grow_next_move = TRUE]

Snake_head_char(s) ==
    CASE s.direction = "Up"    -> "^"
      [] s.direction = "Down"  -> "v"
      [] s.direction = "Left"  -> "<"
      [] s.direction = "Right" -> ">"

(***************************************************************************)
(* TermManager (src/src/term.rs).  A terminal manager is a record          *)
(*   [width, height, screen, device, current_msg, setup]:                  *)
(* screen is the mirror buffer, a Vec<char> of width * height cells, cell  *)
(* (x, y) at index width * y + x; current_msg is an Option<Message>, a     *)
(* message being [top_left, width, height].  device is what the terminal   *)
(* shows for the bytes written to stdout so far, cell by cell in the       *)
(* layout of screen: queue! and flush() deliver the writes in the order    *)
(* they were issued, so flush() changes no modelled state.  setup tells    *)
(* whether the terminal is in raw mode on the alternate screen.            *)
(***************************************************************************)
Blank == " "

\* the index of cell pos in a Vec<char> of rows of `width` cells (1-based)
Term_index(width, pos) == width * pos[2] + pos[1] + 1

\* vec![' '; width * height]
Term_blank_screen(width, height) == [i \in 1..(width * height) |-> Blank]

\* TermManager::new on a terminal of width by height cells.  The device is
\* modelled from setup() on, where the alternate screen starts blank.
Term_new(width, height) ==
    [ width       |-> width,
      height      |-> height,
      screen      |-> Term_blank_screen(width, height),
      device      |-> Term_blank_screen(width, height),
      current_msg |-> NoneOpt,
      setup       |-> FALSE ]

\* setup: alternate screen, raw mode, cursor hidden
Term_setup(t) == [t EXCEPT !.setup = TRUE]

\* restore: raw mode off, cursor shown, alternate screen left
Term_restore(t) == [t EXCEPT !.setup = FALSE]

Term_has_message(t) == t.current_msg # NoneOpt

\* print_at: the character goes to the device and into the mirror buffer
Term_print_at(t, pos, ch) ==
    [t EXCEPT !.device[Term_index(t.width, pos)] = ch,
              !.screen[Term_index(t.width, pos)] = ch]

Term_print_at_no_save_saving(t, pos, ch) ==
    [t EXCEPT !.device[Term_index(t.width, pos)] = ch,
              !.screen[Term_index(t.width, pos)] = ch]

\* print_at_no_save: the character goes to the device only
Term_print_at_no_save(t, pos, ch) ==
    [t EXCEPT !.device[Term_index(t.width, pos)] = ch]

\* a sequence of <<pos, ch>> writes applied in order through
\* print_at_no_save
RECURSIVE Term_write_no_save(_, _)
Term_write_no_save(t, writes) ==
    IF writes = <<>> THEN t
    ELSE Term_write_no_save(
             Term_print_at_no_save(t, writes[1][1], writes[1][2]),
             Tail(writes))

\* a sequence of <<pos, ch>> writes applied in order through print_at (the
\* terminal after the first write and the writes that remain are computed
\* once, as values, before those writes are applied)
RECURSIVE Term_write(_, _)
Term_write(t, writes) ==
    IF writes = <<>> THEN t
    ELSE CHOOSE written \in
             {Term_write(next, rest) :
                  next \in {Term_print_at(t, writes[1][1], writes[1][2])},
                  rest \in {Tail(writes)}} :
             TRUE

\* the concatenation of a sequence of sequences
RECURSIVE Flatten(_)
Flatten(seqs) ==
    IF seqs = <<>> THEN <<>> ELSE seqs[1] \o Flatten(Tail(seqs))

\* hide_message: every cell of the recorded box is rewritten from the
\* mirror buffer, rows outermost, and the record is taken
Term_hide_message(t) ==
    IF ~Term_has_message(t) THEN t
    ELSE LET msg      == t.current_msg[1]
             top_left == msg.top_left
             row(y_diff) ==
                 [x_diff1 \in 1..msg.width |->
                     LET pos == <<top_left[1] + (x_diff1 - 1), top_left[2] + y_diff>>
                     IN  <<pos, t.screen[Term_index(t.width, pos)]>>]
             writes == Flatten([y_diff1 \in 1..msg.height |-> row(y_diff1 - 1)])
         IN  Term_write_no_save([t EXCEPT !.current_msg = NoneOpt], writes)

MaxOf(S) == CHOOSE m \in S : \A n \in S : n <= m

\* format!("{line: ^width$}"): the line centred in `width` cells, the odd
\* blank going to the right
Term_padded_line(line, width) ==
    LET padding == IF width > Len(line) THEN width - Len(line) ELSE 0
        left    == padding \div 2
        right   == padding - left
    IN  [i \in 1..left |-> Blank] \o line \o [i \in 1..right |-> Blank]

\* the box show_message computes for `lines`: Message::new(msg_width,
\* msg_height, top_left).  The u16 subtractions do not underflow for a box
\* that fits on the terminal.
Term_message_box(t, lines) ==
    LET msg_height == Len(lines) + 2
        msg_width  == MaxOf({Len(lines[i]) : i \in 1..Len(lines)}) + 2
        center     == <<t.width \div 2, t.height \div 2>>
    IN  [ top_left |-> <<center[1] - msg_width \div 2,
                         center[2] - msg_height \div 2>>,
          width    |-> msg_width,
          height   |-> msg_height ]

\* the writes of show_message: the top and bottom blank rows, then each
\* line padded to the box width
Term_message_writes(t, lines) ==
    LET msg      == Term_message_box(t, lines)
        top_left == msg.top_left
        blank_row(y) ==
            [x_diff1 \in 1..msg.width |->
                <<(<<top_left[1] + (x_diff1 - 1), y>>), Blank>>]
        text_row(i) ==
            LET padded_line == Term_padded_line(lines[i], msg.width)
                y           == top_left[2] + (i - 1) + 1
            IN  [x_diff1 \in 1..Len(padded_line) |->
                    <<(<<top_left[1] + (x_diff1 - 1), y>>), padded_line[x_diff1]>>]
    IN  blank_row(top_left[2]) \o blank_row(top_left[2] + msg.height - 1)
        \o Flatten([i \in 1..Len(lines) |-> text_row(i)])

Term_show_message_no_hide(t, lines) ==
    LET drawn == Term_write_no_save(t, Term_message_writes(t, lines))
    IN  [drawn EXCEPT !.current_msg = Some(Term_message_box(t, lines))]

\* show_message: an active message is hidden first
Term_show_message(t, lines) ==
    LET t1    == IF Term_has_message(t) THEN Term_hide_message(t) ELSE t
        drawn == Term_write_no_save(t1, Term_message_writes(t1, lines))
    IN  [drawn EXCEPT !.current_msg = Some(Term_message_box(t1, lines))]

\* clear: the device and the mirror buffer become blank
Term_clear(t) ==
    [t EXCEPT !.device = Term_blank_screen(t.width, t.height),
              !.screen = Term_blank_screen(t.width, t.height)]

\* draw_borders(Some((width, height)))
Term_draw_borders(t, width, height) ==
    LET end_x == width - 1
        end_y == height - 1
        ch(x) == IF x = 0 \/ x = width - 1 THEN "+" ELSE "-"
        horizontal ==
            Flatten([x1 \in 1..width |->
                << <<(<<x1 - 1, 0>>), ch(x1 - 1)>>,
                   <<(<<x1 - 1, end_y>>), ch(x1 - 1)>> >>])
        vertical ==
            Flatten([y \in 1..(height - 2) |->
                << <<(<<0, y>>), "|">>, <<(<<end_x, y>>), "|">> >>])
    IN  Term_write(t, horizontal \o vertical)

(***************************************************************************)
(* SnakeGame (src/src/game.rs).  A game is a record                        *)
(*   [width, height, paused, game_positions].                              *)
(***************************************************************************)
TICKS_UNTIL_UPDATE == 10
INITIAL_SNAKE_LENGTH == 6

\* the character stands for the full block of the source
SNAKE_BODY_CHAR == "#"
APPLE_CHAR == "O"
DEAD_SNAKE_CHAR == "X"

\* SnakeGame::new
Game_new == [width |-> 0, height |-> 0, paused |-> FALSE, game_positions |-> <<>>]

\* initialize: the terminal size, then the interior cells row by row
Game_initialize(g, t) ==
    LET w == t.width
        h == t.height
        row(y) == [x \in 1..(w - 2) |-> <<x, y>>]
    IN  [g EXCEPT !.width = w,
                  !.height = h,
                  !.game_positions = Flatten([y \in 1..(h - 2) |-> row(y)])]

\* KeyEvent { code, modifiers }: ctrl tells whether modifiers is CONTROL
Key(code, ctrl) == [code |-> code, ctrl |-> ctrl]

is_ctrl_c(ev) == ev.code = "c" /\ ev.ctrl

\* the direction a key code stands for in play's match ("None": no arm)
Game_key_direction(code) ==
    CASE code \in {"w", "Up"}    -> "Up"
      [] code \in {"a", "Left"}  -> "Left"
      [] code \in {"s", "Down"}  -> "Down"
      [] code \in {"d", "Right"} -> "Right"
      [] OTHER -> "None"

Game_intro_lines ==
    << "Arrow keys or WASD to move", "Esc to pause", "CTRL+C to quit", "",
       "Press any key to begin" >>

Game_paused_lines == << "Paused", "Press Esc to resume", "or Ctrl+C to quit" >>

\* the lines game_over shows
Game_over_lines(score, win) ==
    << IF win THEN "You won!" ELSE "Game over!",
       "Score: " \o ToString(score),
       "",
       "Press any key to play again,",
       "or CTRL+C to quit." >>

Game_spawn_choices_any(g, s) == g.game_positions

\* the `choices` of spawn_apple: the interior cells not in the body
Game_spawn_choices(g, s) ==
    SelectSeq(g.game_positions, LAMBDA pos : ~Contains(s.body, pos))

\* the writes of print_snake
Game_print_snake_writes(s) ==
    LET snake_len == Len(s.body)
    IN  [i \in 1..snake_len |->
            <<s.body[i], IF i = snake_len THEN Snake_head_char(s)
                         ELSE SNAKE_BODY_CHAR>>]

\* the writes of print_snake_update for a Moved result
Game_print_snake_update_writes(s, mov) ==
    << <<mov.new_head, Snake_head_char(s)>>,
       <<mov.old_head, SNAKE_BODY_CHAR>> >>
    \o (IF mov.old_tail # NoneOpt THEN << <<mov.old_tail[1], Blank>> >>
        ELSE <<>>)

\* the writes of game_over: a lost snake is redrawn dead
Game_over_writes(s, win) ==
    IF win THEN <<>>
    ELSE [i \in 1..Len(s.body) |-> <<s.body[i], DEAD_SNAKE_CHAR>>]

\* the step counter a game step sets before the direction change: the
\* checked_sub and max of play
Game_ticks_for_score_no_max(score) ==
    IF TICKS_UNTIL_UPDATE >= score \div 7
    THEN TICKS_UNTIL_UPDATE - score \div 7
    ELSE 1

Game_ticks_for_score(score) ==
    IF TICKS_UNTIL_UPDATE >= score \div 7
    THEN (IF TICKS_UNTIL_UPDATE - score \div 7 >= 1
          THEN TICKS_UNTIL_UPDATE - score \div 7 ELSE 1)
    ELSE 1

\* (ticks as f64 * 1.35).ceil() as u64.  For the values 1..10 the counter
\* takes here no product is an integer, so the rounding of the f64 product
\* cannot change the ceiling.
Game_vertical_ticks(ticks) == (ticks * 135 + 99) \div 100

(***************************************************************************)
(* State.                                                                  *)
(*   snake  the Snake object                                               *)
(*   res    the MoveResult of the latest move_step ([kind |-> "NoResult"]  *)
(*          before the first)                                              *)
(*   call   SnakeSpec: the latest call of the Snake API and its arguments  *)
(*   grows  SnakeSpec: the number of grow() calls since the latest move    *)
(*   sets   SnakeSpec: the set_direction calls since the latest move:      *)
(*          the direction of the latest one ("None": no call) and whether  *)
(*          none of them asked for the reverse of the direction it found   *)
(*   term   the TermManager object                                         *)
(*   tcall  TermSpec: the latest call of the TermManager API, with its     *)
(*          arguments and the message and mirror buffer it found           *)
(*   prints TermSpec: the number of print_at calls since the latest clear  *)
(*   game   the SnakeGame object                                           *)
(*   pc     GameSpec: where main() stands: "new" (before initialize),      *)
(*          "intro" (show_intro's blocking read), "play" (about to call    *)
(*          play()), "tick" (in play's loop), "ended" (play's blocking     *)
(*          read after a round) or "exited" (after clean_exit)             *)
(*   apple, dir_change, ticks_until_step                                   *)
(*          the locals of play(); apple is an Option until play sets it    *)
(*   score  the `score` of the latest game step of the round, an Option    *)
(*   overlay GameSpec: the lines of the message the TermManager shows, an  *)
(*          Option.  The terminals of GameSpec are smaller than the boxes  *)
(*          of the game's messages, so GameSpec keeps of show_message and  *)
(*          hide_message which message is active; the box and the device  *)
(*          under it are TermSpec's.                                       *)
(*   steps  GameSpec: the number of game steps of the round so far         *)
(*   gcall  GameSpec: what the latest action did: whether it made a game   *)
(*          step, and the result of its spawn_apple call if it made one    *)
(*   eaten  GameSpec: the number of apples the snake ate in the round      *)
(*   queue  the key events pressed and not yet read.  InputSpec reads the  *)
(*          keys from it; GameSpec and RoundSpec draw what each read       *)
(*          returns and keep it empty                                      *)
(***************************************************************************)
VARIABLES snake, res, call, grows, sets, term, tcall, prints,
          game, pc, apple, dir_change, ticks_until_step, score, overlay,
          steps, gcall, eaten, queue

vars == <<snake, res, call, grows, sets, term, tcall, prints,
          game, pc, apple, dir_change, ticks_until_step, score, overlay,
          steps, gcall, eaten, queue>>

snakeVars == <<snake, res, call, grows, sets>>
termVars == <<term, tcall, prints>>
gameVars == <<game, pc, apple, dir_change, ticks_until_step, score, overlay,
              steps, gcall, eaten, queue>>

NoStep == [stepped |-> FALSE, spawn |-> NoneOpt]

\* SnakeSpec and TermSpec leave the game as SnakeGame::new makes it
NoGame ==
    /\ game = Game_new
    /\ pc = "new"
    /\ apple = NoneOpt
    /\ dir_change = "None"
    /\ ticks_until_step = TICKS_UNTIL_UPDATE
    /\ score = NoneOpt
    /\ overlay = NoneOpt
    /\ steps = 0
    /\ gcall = NoStep
    /\ eaten = 0
    /\ queue = <<>>

\* the values of the variables a specification does not use
NoSnake == [body |-> <<>>, direction |-> "Right", grow_next_move |-> FALSE]
NoCall == [op |-> "none"]

NoResult == [kind |-> "NoResult"]
NoSets == [last |-> "None", none_reverse |-> TRUE]

Opposite(d) ==
    CASE d = "Up" -> "Down" [] d = "Down" -> "Up"
      [] d = "Left" -> "Right" [] d = "Right" -> "Left"

Interior(max_x, max_y) == (1..max_x) \X (1..max_y)

(***************************************************************************)
(* SnakeSpec: a snake is created with its head inside the arena and then   *)
(* driven by any sequence of set_direction, grow and move_step calls, up   *)
(* to the first Crashed (the caller stops calling move_step then).         *)
(***************************************************************************)
SnakeInit ==
    \E pos \in Interior(ArenaMax, ArenaMax), size \in 1..MaxInitLen,
       direction \in Directions :
        /\ snake = Snake_new(pos, size, direction)
        /\ res = NoResult
        /\ call = [op |-> "new", pos |-> pos, size |-> size,
                   direction |-> direction]
        /\ grows = 0
        /\ sets = NoSets
        /\ term = Term_new(0, 0)
        /\ tcall = NoCall
        /\ prints = 0
        /\ NoGame

Alive == res.kind # "Crashed"

SetDirectionCall(d) ==
    /\ Alive
    /\ snake' = Snake_set_direction(snake, d)
    /\ call' = [op |-> "set_direction", direction |-> d]
    /\ sets' = [last |-> d,
                none_reverse |-> sets.none_reverse /\ d # Opposite(snake.direction)]
    /\ UNCHANGED <<res, grows, termVars, gameVars>>

GrowCall ==
    /\ Alive
    /\ Len(snake.body) < MaxBodyLen
    /\ grows < MaxGrows
    /\ snake' = Snake_grow(snake)
    /\ call' = [op |-> "grow"]
    /\ grows' = grows + 1
    /\ UNCHANGED <<res, sets, termVars, gameVars>>

MoveStepCall ==
    /\ Alive
    /\ LET r == Snake_move_step(snake, ArenaMax, ArenaMax)
       IN  /\ snake' = r.snake
           /\ res' = r.res
    /\ call' = [op |-> "move_step"]
    /\ grows' = 0
    /\ sets' = NoSets
    /\ UNCHANGED <<termVars, gameVars>>

SnakeNext ==
    \/ \E d \in Directions : SetDirectionCall(d)
    \/ GrowCall
    \/ MoveStepCall

SnakeSpec == SnakeInit /\ [][SnakeNext]_vars

(***************************************************************************)
(* TermSpec: a TermManager on a small terminal, set up and then driven by  *)
(* any sequence of show_message, hide_message, print_at and clear calls.   *)
(* The messages are those whose box fits on the terminal and the positions *)
(* printed at are cells of the terminal.                                   *)
(***************************************************************************)
\* the terminal sizes: an even and an odd one, for the centring
TermSizes == {<<4, 4>>, <<5, 5>>}

\* the characters print_at is called with
PrintChars == {"a"}

\* the messages: one or two lines of no, one or two characters each; the
\* largest box, 4 by 4, fits on every terminal of TermSizes
MessageLine == UNION {[1..n -> {"m"}] : n \in {0, 1, 2}}
Messages == UNION {[1..n -> MessageLine] : n \in {1, 2}}

Cells(width, height) == (0..(width - 1)) \X (0..(height - 1))

TermInit ==
    \E size \in TermSizes :
        /\ term = Term_setup(Term_new(size[1], size[2]))
        /\ tcall = [op |-> "new"]
        /\ prints = 0
        /\ snake = NoSnake
        /\ res = NoResult
        /\ call = NoCall
        /\ grows = 0
        /\ sets = NoSets
        /\ NoGame

ShowMessageCall(lines) ==
    /\ term' = Term_show_message(term, lines)
    /\ tcall' = [op |-> "show_message", lines |-> lines,
                 screen_before |-> term.screen,
                 msg_before |-> term.current_msg]
    /\ UNCHANGED <<prints, snakeVars, gameVars>>

HideMessageCall ==
    /\ term' = Term_hide_message(term)
    /\ tcall' = [op |-> "hide_message", msg_before |-> term.current_msg,
                 op_before |-> tcall.op]
    /\ UNCHANGED <<prints, snakeVars, gameVars>>

PrintAtCall(pos, ch) ==
    /\ prints < MaxPrints
    /\ term' = Term_print_at(term, pos, ch)
    /\ tcall' = [op |-> "print_at"]
    /\ prints' = prints + 1
    /\ UNCHANGED <<snakeVars, gameVars>>

ClearCall ==
    /\ term' = Term_clear(term)
    /\ tcall' = [op |-> "clear"]
    /\ prints' = 0
    /\ UNCHANGED <<snakeVars, gameVars>>

TermNext ==
    \/ \E lines \in Messages : ShowMessageCall(lines)
    \/ HideMessageCall
    \/ \E pos \in Cells(term.width, term.height), ch \in PrintChars :
           PrintAtCall(pos, ch)
    \/ ClearCall

TermSpec == TermInit /\ [][TermNext]_vars

(***************************************************************************)
(* GameSpec: main().  SnakeGame::new, initialize, show_intro and then      *)
(* play() again and again, each tick of play's loop reading the key        *)
(* events of KeySeqs.  spawn_apple's random choice is any of its choices.  *)
(***************************************************************************)
\* the terminal sizes: the smallest on which the snake of 6 cells is drawn
\* without leaving the screen (its tail lies on the left border), and the
\* smallest on which it lies inside the arena with room to turn
GameSizes == {<<10, 3>>, <<12, 4>>}

KeyCodes == {"w", "a", "s", "d", "Up", "Left", "Down", "Right", "Esc"}
Keys == {Key(code, FALSE) : code \in KeyCodes \cup {"c"}} \cup {Key("c", TRUE)}
\* the key events a tick finds queued: none, any one key, or one of the
\* bursts of two keys (5 ms lie between two ticks)
KeyBursts ==
    {<<Key("Left", FALSE), Key("w", FALSE)>>,
     <<Key("w", FALSE), Key("s", FALSE)>>,
     <<Key("Esc", FALSE), Key("Esc", FALSE)>>,
     <<Key("d", FALSE), Key("Esc", FALSE)>>}
KeySeqs == {<<>>} \cup {<<ev>> : ev \in Keys} \cup KeyBursts

\* the queue a blocking read leaves: read() takes the first event
Key_rest(q) == IF q = <<>> THEN q ELSE Tail(q)

\* show_message and hide_message, as far as GameSpec keeps them
Overlay_show(lines) == Some(lines)
Overlay_hide == NoneOpt

GameInit ==
    \E size \in GameSizes :
        /\ term = Term_new(size[1], size[2])
        /\ NoGame
        /\ snake = NoSnake
        /\ res = NoResult
        /\ call = NoCall
        /\ grows = 0
        /\ sets = NoSets
        /\ tcall = NoCall
        /\ prints = 0

unusedVars == <<call, grows, sets, tcall, prints>>

\* main: game.initialize(), then show_intro up to its blocking read
Initialize ==
    /\ pc = "new"
    /\ term' = Term_setup(term)
    /\ game' = Game_initialize(game, term)
    /\ overlay' = Overlay_show(Game_intro_lines)
    /\ pc' = "intro"
    /\ UNCHANGED <<snake, res, apple, dir_change, ticks_until_step, score,
                   steps, gcall, eaten, queue, unusedVars>>

\* clean_exit that exits without restoring the terminal
CleanExit_without_restore ==
    /\ term' = term
    /\ pc' = "exited"

\* clean_exit: restore the terminal, then exit(0)
CleanExit ==
    /\ term' = Term_restore(term)
    /\ pc' = "exited"

\* show_intro from its blocking read on
ShowIntroKey(ev) ==
    /\ pc = "intro"
    /\ IF is_ctrl_c(ev)
       THEN /\ CleanExit
            /\ UNCHANGED overlay
       ELSE /\ overlay' = Overlay_hide
            /\ pc' = "play"
            /\ UNCHANGED term
    /\ queue' = Key_rest(queue)
    /\ UNCHANGED <<game, snake, res, apple, dir_change, ticks_until_step,
                   score, steps, gcall, eaten, unusedVars>>

\* play() up to its loop
PlayStart ==
    /\ pc = "play"
    /\ \E cleared \in {Term_draw_borders(Term_clear(term), game.width, game.height)},
          fresh \in {Snake_new(<<game.width \div 2, game.height \div 2>>,
                               INITIAL_SNAKE_LENGTH, "Right")} :
          \E choices \in {Game_spawn_choices(game, fresh)} :
              \* spawn_apple(...).unwrap() panics without a free cell
              /\ choices # <<>>
              /\ \E i \in 1..Len(choices) :
                     /\ apple' = Some(choices[i])
                     /\ term' = Term_write(
                                    Term_print_at(cleared, choices[i], APPLE_CHAR),
                                    Game_print_snake_writes(fresh))
                     /\ gcall' = [stepped |-> FALSE, spawn |-> Some(Some(choices[i]))]
              /\ snake' = fresh
    /\ overlay' = Overlay_hide
    /\ res' = NoResult
    /\ dir_change' = "None"
    /\ ticks_until_step' = TICKS_UNTIL_UPDATE
    /\ score' = NoneOpt
    /\ steps' = 0
    /\ eaten' = 0
    /\ pc' = "tick"
    /\ UNCHANGED <<game, queue, unusedVars>>

\* toggle_pause that flips the flag and leaves the message as it is
Game_toggle_pause_flag_only(d) == [d EXCEPT !.paused = ~d.paused]

\* toggle_pause on the drained state d
Game_toggle_pause(d) ==
    [d EXCEPT !.overlay = IF ~d.paused THEN Overlay_show(Game_paused_lines)
                          ELSE Overlay_hide,
              !.paused = ~d.paused]

\* the for loop keeping the first direction key it reads
RECURSIVE Game_drain_first_wins(_, _)
Game_drain_first_wins(d, key_evs) ==
    IF key_evs = <<>> \/ d.exit THEN d
    ELSE LET ev == key_evs[1]
             next ==
                 IF is_ctrl_c(ev) THEN [d EXCEPT !.exit = TRUE]
                 ELSE IF Game_key_direction(ev.code) # "None"
                      THEN IF d.dir_change # "None" THEN d
                           ELSE [d EXCEPT !.dir_change = Game_key_direction(ev.code)]
                 ELSE IF ev.code = "Esc" THEN Game_toggle_pause(d)
                 ELSE d
         IN  Game_drain_first_wins(next, Tail(key_evs))

\* the for loop over read_key_events_queue(): d is [dir_change, paused,
\* overlay, exit]; Ctrl+C leaves through clean_exit and ends the loop
RECURSIVE Game_drain(_, _)
Game_drain(d, key_evs) ==
    IF key_evs = <<>> \/ d.exit THEN d
    ELSE LET ev == key_evs[1]
             next ==
                 IF is_ctrl_c(ev) THEN [d EXCEPT !.exit = TRUE]
                 ELSE IF Game_key_direction(ev.code) # "None"
                      THEN [d EXCEPT !.dir_change = Game_key_direction(ev.code)]
                 ELSE IF ev.code = "Esc" THEN Game_toggle_pause(d)
                 ELSE d
         IN  Game_drain(next, Tail(key_evs))

Drained(key_evs) ==
    Game_drain([dir_change |-> dir_change, paused |-> game.paused,
                overlay |-> overlay, exit |-> FALSE], key_evs)

\* the `score` of a game step
Game_score(s) == Len(s.body) - INITIAL_SNAKE_LENGTH

\* the pending direction applied without set_direction's test
Game_turned_unchecked(s, pending) ==
    IF pending # "None" THEN [s EXCEPT !.direction = pending] ELSE s

\* the snake a game step moves: the pending direction applied
Game_turned(s, pending) ==
    IF pending # "None" THEN Snake_set_direction(s, pending) ELSE s

\* the step counter a game step leaves for a snake of `score` that, the
\* pending direction applied, travels in `direction`
Game_next_ticks(s_score, direction) ==
    IF direction \in {"Up", "Down"}
    THEN Game_vertical_ticks(Game_ticks_for_score(s_score))
    ELSE Game_ticks_for_score(s_score)

\* the ticks of play's loop are followed up to MaxSteps game steps a round
InLoop == pc = "tick" /\ steps < MaxSteps

\* a tick whose key events hold Ctrl+C (in the tick actions d is the state
\* the drained keys leave, computed once)
TickExit(key_evs) ==
    InLoop /\ \E d \in {Drained(key_evs)} :
        /\ d.exit
        /\ CleanExit
        /\ game' = [game EXCEPT !.paused = d.paused]
        /\ overlay' = d.overlay
        /\ dir_change' = d.dir_change
        /\ gcall' = NoStep
        /\ queue' = <<>>
        /\ UNCHANGED <<snake, res, apple, ticks_until_step, score, steps,
                       eaten, unusedVars>>

TickPaused_counting(key_evs) ==
    InLoop /\ \E d \in {Drained(key_evs)} :
        /\ ~d.exit
        /\ d.paused
        /\ game' = [game EXCEPT !.paused = TRUE]
        /\ overlay' = d.overlay
        /\ dir_change' = d.dir_change
        /\ gcall' = NoStep
        /\ queue' = <<>>
        /\ ticks_until_step' =
               IF ticks_until_step > 1 THEN ticks_until_step - 1
               ELSE ticks_until_step
        /\ UNCHANGED <<term, pc, snake, res, apple, score, steps, eaten,
                       unusedVars>>

\* a tick that ends paused: `continue`
TickPaused(key_evs) ==
    InLoop /\ \E d \in {Drained(key_evs)} :
        /\ ~d.exit
        /\ d.paused
        /\ game' = [game EXCEPT !.paused = TRUE]
        /\ overlay' = d.overlay
        /\ dir_change' = d.dir_change
        /\ gcall' = NoStep
        /\ queue' = <<>>
        /\ UNCHANGED <<term, pc, snake, res, apple, ticks_until_step, score,
                       steps, eaten, unusedVars>>

\* a tick that counts down without reaching the game step
TickCountdown(key_evs) ==
    InLoop /\ \E d \in {Drained(key_evs)} :
        /\ ticks_until_step - 1 # 0
        /\ ~d.exit
        /\ ~d.paused
        /\ ticks_until_step' = ticks_until_step - 1
        /\ game' = [game EXCEPT !.paused = FALSE]
        /\ overlay' = d.overlay
        /\ dir_change' = d.dir_change
        /\ gcall' = NoStep
        /\ queue' = <<>>
        /\ UNCHANGED <<term, pc, snake, res, apple, score, steps, eaten,
                       unusedVars>>

\* a game step that scales the counter by the direction the snake has
\* before the pending direction is applied
StepEffects_scaling_first(d, m) ==
    /\ game' = [game EXCEPT !.paused = FALSE]
    /\ score' = Some(Game_score(snake))
    /\ ticks_until_step' = Game_next_ticks(Game_score(snake), snake.direction)
    /\ dir_change' = "None"
    /\ res' = m.res
    /\ steps' = steps + 1
    /\ queue' = <<>>
    /\ UNCHANGED unusedVars

\* what every game step does, whatever the move returns; d is the drained
\* state and m the result of the move
StepEffects(d, m) ==
    /\ game' = [game EXCEPT !.paused = FALSE]
    /\ score' = Some(Game_score(snake))
    /\ ticks_until_step' =
           Game_next_ticks(Game_score(snake),
                           Game_turned(snake, d.dir_change).direction)
    /\ dir_change' = "None"
    /\ res' = m.res
    /\ steps' = steps + 1
    /\ queue' = <<>>
    /\ UNCHANGED unusedVars

\* the tick of a game step: not paused, the countdown reaches 0
\* the countdown of this tick reaches 0
StepDue == InLoop /\ ticks_until_step - 1 = 0

StepCommon(d, m) ==
    /\ StepDue
    /\ ~d.exit
    /\ ~d.paused
    /\ StepEffects(d, m)

\* the move of a game step
StepMove(d) ==
    Snake_move_step(Game_turned(snake, d.dir_change),
                    game.width - 2, game.height - 2)

\* the Crashed arm: game_over(.., false), break
Step_crashed(d, m) ==
    /\ m.res.kind = "Crashed"
    /\ snake' = m.snake
    /\ term' = Term_write(term, Game_over_writes(m.snake, FALSE))
    /\ overlay' = Overlay_show(Game_over_lines(Game_score(snake), FALSE))
    /\ pc' = "ended"
    /\ gcall' = [stepped |-> TRUE, spawn |-> NoneOpt]
    /\ UNCHANGED <<apple, eaten>>

\* the Moved arm with the head on a cell other than the apple's
Step_moved(d, m) ==
    /\ m.res.kind = "Moved"
    /\ m.res.new_head # apple[1]
    /\ snake' = m.snake
    /\ term' = Term_write(term, Game_print_snake_update_writes(m.snake, m.res))
    /\ overlay' = d.overlay
    /\ gcall' = [stepped |-> TRUE, spawn |-> NoneOpt]
    /\ UNCHANGED <<apple, pc, eaten>>

\* the Moved arm with the head on the apple and a cell left for the next
Step_ate(d, m) ==
    LET choices == Game_spawn_choices(game, m.snake)
    IN  /\ m.res.kind = "Moved"
        /\ m.res.new_head = apple[1]
        /\ \E i \in 1..Len(choices) :
               /\ apple' = Some(choices[i])
               /\ snake' = Snake_grow(m.snake)
               /\ term' = Term_write(
                              Term_print_at(term, choices[i], APPLE_CHAR),
                              Game_print_snake_update_writes(Snake_grow(m.snake), m.res))
               /\ gcall' = [stepped |-> TRUE, spawn |-> Some(Some(choices[i]))]
        /\ overlay' = d.overlay
        /\ eaten' = eaten + 1
        /\ UNCHANGED pc

\* the Moved arm with the head on the apple and no cell left:
\* game_over(.., true), break
Step_won(d, m) ==
    /\ m.res.kind = "Moved"
    /\ m.res.new_head = apple[1]
    /\ Game_spawn_choices(game, m.snake) = <<>>
    /\ snake' = m.snake
    /\ term' = Term_write(term, Game_over_writes(m.snake, TRUE))
    /\ overlay' = Overlay_show(Game_over_lines(Game_score(snake), TRUE))
    /\ pc' = "ended"
    /\ gcall' = [stepped |-> TRUE, spawn |-> Some(NoneOpt)]
    /\ eaten' = eaten + 1
    /\ UNCHANGED apple

\* a game step whose move returns Crashed
StepCrashed(key_evs) ==
    /\ StepDue
    /\ \E d \in {Drained(key_evs)} : \E m \in {StepMove(d)} :
           StepCommon(d, m) /\ Step_crashed(d, m)

\* a game step that moves the head to a cell other than the apple's
StepMoved(key_evs) ==
    /\ StepDue
    /\ \E d \in {Drained(key_evs)} : \E m \in {StepMove(d)} :
           StepCommon(d, m) /\ Step_moved(d, m)

\* a game step that moves the head onto the apple, with a cell left for
\* the next apple
StepAte(key_evs) ==
    /\ StepDue
    /\ \E d \in {Drained(key_evs)} : \E m \in {StepMove(d)} :
           StepCommon(d, m) /\ Step_ate(d, m)

\* a game step that moves the head onto the apple with no cell left
StepWon(key_evs) ==
    /\ StepDue
    /\ \E d \in {Drained(key_evs)} : \E m \in {StepMove(d)} :
           StepCommon(d, m) /\ Step_won(d, m)

\* play() from its blocking read after the round on; main calls it again
AfterRoundKey(ev) ==
    /\ pc = "ended"
    /\ IF is_ctrl_c(ev)
       THEN CleanExit
       ELSE /\ pc' = "play"
            /\ UNCHANGED term
    /\ gcall' = NoStep
    /\ queue' = Key_rest(queue)
    /\ UNCHANGED <<game, snake, res, apple, dir_change, ticks_until_step,
                   score, overlay, steps, eaten, unusedVars>>

GameNext ==
    \/ Initialize
    \/ \E ev \in Keys : ShowIntroKey(ev)
    \/ PlayStart
    \/ \E key_evs \in KeySeqs : TickExit(key_evs)
    \/ \E key_evs \in KeySeqs : TickPaused(key_evs)
    \/ \E key_evs \in KeySeqs : TickCountdown(key_evs)
    \/ \E key_evs \in KeySeqs : StepCrashed(key_evs)
    \/ \E key_evs \in KeySeqs : StepMoved(key_evs)
    \/ \E key_evs \in KeySeqs : StepAte(key_evs)
    \/ \E key_evs \in KeySeqs : StepWon(key_evs)
    \/ \E ev \in Keys : AfterRoundKey(ev)

GameSpec == GameInit /\ [][GameNext]_vars

(***************************************************************************)
(* InputSpec: main() with the keys in flight.  A key that is pressed joins *)
(* the queue of events; read_key_blocking takes the first event of the     *)
(* queue and blocks while there is none, and read_key_events_queue takes   *)
(* them all.  The fair specification adds what the scheduling gives: the   *)
(* program goes on whenever it can (a sleep of 5 ms ends, a blocking read  *)
(* returns once a key is there); no key ever has to be pressed.            *)
(***************************************************************************)
\* the terminal size: one row of arena, where every round ends by itself
InputSizes == {<<10, 3>>}

\* the keys pressed: two direction keys, the pause key, Ctrl+C and c alone
InputKeys ==
    {Key("w", FALSE), Key("Left", FALSE), Key("Esc", FALSE), Key("c", FALSE),
     Key("c", TRUE)}

InputInit ==
    \E size \in InputSizes :
        /\ term = Term_new(size[1], size[2])
        /\ NoGame
        /\ snake = NoSnake
        /\ res = NoResult
        /\ call = NoCall
        /\ grows = 0
        /\ sets = NoSets
        /\ tcall = NoCall
        /\ prints = 0

\* a key is pressed
KeyPress(ev) ==
    /\ pc # "exited"
    /\ Len(queue) < MaxQueue
    /\ queue' = Append(queue, ev)
    /\ gcall' = NoStep
    /\ UNCHANGED <<game, pc, snake, res, apple, dir_change, ticks_until_step,
                   score, overlay, steps, eaten, term, unusedVars>>

\* show_intro's read_key_blocking returns the first event
InputIntroKey == queue # <<>> /\ ShowIntroKey(Head(queue))

\* play's read_key_blocking after the round returns the first event
InputAfterRoundKey == queue # <<>> /\ AfterRoundKey(Head(queue))

\* what the program does
InputProgram ==
    \/ Initialize
    \/ InputIntroKey
    \/ PlayStart
    \/ TickExit(queue)
    \/ TickPaused(queue)
    \/ TickCountdown(queue)
    \/ StepCrashed(queue)
    \/ StepMoved(queue)
    \/ StepAte(queue)
    \/ StepWon(queue)
    \/ InputAfterRoundKey

InputNext ==
    \/ \E ev \in InputKeys : KeyPress(ev)
    \/ Initialize
    \/ InputIntroKey
    \/ PlayStart
    \/ TickExit(queue)
    \/ TickPaused(queue)
    \/ TickCountdown(queue)
    \/ StepCrashed(queue)
    \/ StepMoved(queue)
    \/ StepAte(queue)
    \/ StepWon(queue)
    \/ InputAfterRoundKey

InputSpec == InputInit /\ [][InputNext]_vars

InputFairSpec == InputSpec /\ WF_vars(InputProgram)

(***************************************************************************)
(* TicksSpec: the step counter of play() alone.  ticks_until_step starts   *)
(* at TICKS_UNTIL_UPDATE, every unpaused tick counts it down, and the tick *)
(* that brings it to 0 is a game step that sets it anew from the score and *)
(* the direction of the step's move.  The scores and directions of the     *)
(* steps are any of 0..MaxScore and of Directions.                         *)
(***************************************************************************)
TicksInit ==
    /\ NoGame
    /\ snake = NoSnake
    /\ term = Term_new(0, 0)
    /\ res = NoResult
    /\ call = NoCall
    /\ grows = 0
    /\ sets = NoSets
    /\ tcall = NoCall
    /\ prints = 0

\* ticks_until_step -= 1, not yet 0
TicksCountdown ==
    /\ ticks_until_step - 1 # 0
    /\ ticks_until_step' = ticks_until_step - 1
    /\ gcall' = NoStep
    /\ UNCHANGED <<snake, score, game, pc, apple, dir_change, overlay, steps,
                   eaten, queue, res, term, unusedVars>>

\* ticks_until_step -= 1 reaches 0: the counter of a game step of score
\* s_score whose move goes in `direction`
TicksStep(s_score, direction) ==
    /\ ticks_until_step - 1 = 0
    /\ score' = Some(s_score)
    /\ snake' = [snake EXCEPT !.direction = direction]
    /\ ticks_until_step' = Game_next_ticks(s_score, direction)
    /\ gcall' = [stepped |-> TRUE, spawn |-> NoneOpt]
    /\ UNCHANGED <<game, pc, apple, dir_change, overlay, steps, eaten, queue,
                   res, term, unusedVars>>

TicksNext ==
    \/ TicksCountdown
    \/ \E s_score \in 0..MaxScore, direction \in Directions :
           TicksStep(s_score, direction)

TicksSpec == TicksInit /\ [][TicksNext]_vars

(***************************************************************************)
(* RoundSpec: the rounds of GameSpec followed game step by game step, for  *)
(* up to MaxRoundSteps steps.  One action is the ticks of a countdown      *)
(* together with the game step that ends it: of all the keys those ticks   *)
(* read, the step sees the pending direction they leave (pending, any      *)
(* direction or none) and a game that is not paused, with no overlay.      *)
(***************************************************************************)
\* the drained state of the tick of a game step with `pending` pending
RoundDrained(pending) ==
    [dir_change |-> pending, paused |-> FALSE, overlay |-> NoneOpt,
     exit |-> FALSE]

InRoundLoop == pc = "tick" /\ steps < MaxRoundSteps

RoundStepCrashed(pending) ==
    /\ InRoundLoop
    /\ \E d \in {RoundDrained(pending)} : \E m \in {StepMove(d)} :
           StepEffects(d, m) /\ Step_crashed(d, m)

RoundStepMoved(pending) ==
    /\ InRoundLoop
    /\ \E d \in {RoundDrained(pending)} : \E m \in {StepMove(d)} :
           StepEffects(d, m) /\ Step_moved(d, m)

RoundStepAte(pending) ==
    /\ InRoundLoop
    /\ \E d \in {RoundDrained(pending)} : \E m \in {StepMove(d)} :
           StepEffects(d, m) /\ Step_ate(d, m)

RoundStepWon(pending) ==
    /\ InRoundLoop
    /\ \E d \in {RoundDrained(pending)} : \E m \in {StepMove(d)} :
           StepEffects(d, m) /\ Step_won(d, m)

RoundNext ==
    \/ Initialize
    \/ \E ev \in Keys : ShowIntroKey(ev)
    \/ PlayStart
    \/ \E pending \in Directions \cup {"None"} : RoundStepCrashed(pending)
    \/ \E pending \in Directions \cup {"None"} : RoundStepMoved(pending)
    \/ \E pending \in Directions \cup {"None"} : RoundStepAte(pending)
    \/ \E pending \in Directions \cup {"None"} : RoundStepWon(pending)
    \/ \E ev \in Keys : AfterRoundKey(ev)

RoundSpec == GameInit /\ [][RoundNext]_vars

(***************************************************************************)
(* Claims about Snake, checked under SnakeSpec.                            *)
(***************************************************************************)
HeadOf(s) == s.body[Len(s.body)]

\* the cell one step ahead of the head along the current direction
Ahead(s) ==
    LET d == Snake_diff(s.direction)
    IN  <<HeadOf(s)[1] + d[1], HeadOf(s)[2] + d[2]>>

\* the wall cells around an arena with interior 1..max_x by 1..max_y
IsWall(c, max_x, max_y) ==
    c[1] = 0 \/ c[2] = 0 \/ c[1] = max_x + 1 \/ c[2] = max_y + 1

InArena(c, max_x, max_y) ==
    1 <= c[1] /\ c[1] <= max_x /\ 1 <= c[2] /\ c[2] <= max_y

\* c is a body cell other than the current tail (Rust body[1..])
BeyondTail(s, c) == \E i \in 2..Len(s.body) : s.body[i] = c

NoDuplicates(body) ==
    \A i, j \in 1..Len(body) : i # j => body[i] # body[j]

\* move_step is only ever called with the head inside the arena.
HeadInArena == InArena(HeadOf(snake), ArenaMax, ArenaMax)

C2_NoDuplicatesWhileAlive ==
    Alive => NoDuplicates(snake.body)

\* C3: a move_step whose new head would lie on a wall (x = 0, y = 0,
\* x = maxX+1, y = maxY+1) returns Crashed, and a successful move of a snake
\* whose cells are all inside the arena leaves them all inside.
C3_WallCrash ==
    [][ call'.op = "move_step" =>
          /\ IsWall(Ahead(snake), ArenaMax, ArenaMax) => res'.kind = "Crashed"
          /\ ( /\ \A i \in 1..Len(snake.body) :
                      InArena(snake.body[i], ArenaMax, ArenaMax)
               /\ res'.kind = "Moved" )
             => \A i \in 1..Len(snake'.body) :
                    InArena(snake'.body[i], ArenaMax, ArenaMax) ]_vars

\* a move into a wall, away from the body, has returned Crashed
C3_Witness ==
    /\ call.op = "move_step"
    /\ res.kind = "Crashed"
    /\ IsWall(Ahead(snake), ArenaMax, ArenaMax)
    /\ ~Contains(snake.body, Ahead(snake))
    /\ Len(snake.body) > 1

\* C4: set_direction(d) leaves the direction alone when d is the reverse of
\* the current direction and otherwise sets it to d; a successful move
\* offsets the head by one cell along the current direction, which is the
\* latest set_direction argument when no call since the previous move asked
\* for a reverse.
C4_SetDirection ==
    [][ /\ call'.op = "set_direction" =>
            snake'.direction =
                IF call'.direction = Opposite(snake.direction)
                THEN snake.direction ELSE call'.direction
        /\ (call'.op = "move_step" /\ res'.kind = "Moved") =>
            /\ res'.new_head[1] = HeadOf(snake)[1] + Snake_diff(snake.direction)[1]
            /\ res'.new_head[2] = HeadOf(snake)[2] + Snake_diff(snake.direction)[2]
            /\ (sets.last # "None" /\ sets.none_reverse) =>
                   /\ snake.direction = sets.last
                   /\ HeadOf(snake') = <<HeadOf(snake)[1] + Snake_diff(sets.last)[1],
                                       HeadOf(snake)[2] + Snake_diff(sets.last)[2]>>
      ]_vars

\* a reverse request has just been ignored
C4_Witness ==
    /\ call.op = "set_direction"
    /\ call.direction = Opposite(snake.direction)
    /\ ~sets.none_reverse

\* C5: a successful move_step with no grow() since the previous move keeps
\* the length and returns the removed tail cell; after one or more grow()
\* calls it adds exactly one cell, returns no tail and clears the flag.
C5_Growth ==
    [][ (call'.op = "move_step" /\ res'.kind = "Moved") =>
          IF grows = 0
          THEN /\ Len(snake'.body) = Len(snake.body)
               /\ res'.old_tail = Some(snake.body[1])
               /\ snake'.body = Append(Tail(snake.body), res'.new_head)
          ELSE /\ Len(snake'.body) = Len(snake.body) + 1
               /\ res'.old_tail = NoneOpt
               /\ snake'.body = Append(snake.body, res'.new_head)
               /\ ~snake'.grow_next_move ]_vars

\* a move after a growing move has dropped the tail again
C5_Witness ==
    /\ call.op = "move_step"
    /\ res.kind = "Moved"
    /\ res.old_tail # NoneOpt
    /\ Len(snake.body) > MaxInitLen

\* Snake::new's body fits on the grid: no coordinate falls below 0
Fits(pos, size, direction) ==
    \A i \in 0..(size - 1) :
        /\ pos[1] - Snake_diff(direction)[1] * i >= 0
        /\ pos[2] - Snake_diff(direction)[2] * i >= 0

\* C6: Snake::new(start, L, D) with L >= 1 and the body on the grid gives L
\* cells ending in start, each one step along D from the one before, the
\* direction D and no growth pending.
C6_New ==
    ( /\ call.op = "new"
      /\ call.size >= 1
      /\ Fits(call.pos, call.size, call.direction) )
    => /\ Len(snake.body) = call.size
       /\ snake.body[Len(snake.body)] = call.pos
       /\ \A k \in 1..(Len(snake.body) - 1) :
              snake.body[k + 1] =
                  << snake.body[k][1] + Snake_diff(call.direction)[1],
                     snake.body[k][2] + Snake_diff(call.direction)[2] >>
       /\ snake.direction = call.direction
       /\ ~snake.grow_next_move

\* a snake of the longest initial length that fits
C6_Witness ==
    /\ call.op = "new"
    /\ call.size = MaxInitLen
    /\ Fits(call.pos, call.size, call.direction)

(***************************************************************************)
(* Claims about TermManager, checked under TermSpec.                       *)
(***************************************************************************)
\* the cells of a rectangle given by its top-left cell, width and height
RectCells(top_left, width, height) ==
    (top_left[1]..(top_left[1] + width - 1))
        \X (top_left[2]..(top_left[2] + height - 1))

\* the cells of the box of a message of `lines` centred on terminal t: the
\* longest line plus 2 wide, the number of lines plus 2 high
BoxCells(t, lines) ==
    LET box_width  == MaxOf({Len(lines[i]) : i \in 1..Len(lines)}) + 2
        box_height == Len(lines) + 2
    IN  RectCells(<<t.width \div 2 - box_width \div 2,
                    t.height \div 2 - box_height \div 2>>,
                  box_width, box_height)

\* the cells covered by the overlay recorded as active (none without one)
ActiveCells(t) ==
    IF t.current_msg = NoneOpt THEN {}
    ELSE RectCells(t.current_msg[1].top_left, t.current_msg[1].width,
                   t.current_msg[1].height)

DeviceAt(t, c) == t.device[t.width * c[2] + c[1] + 1]
MirrorAt(t, c) == t.screen[t.width * c[2] + c[1] + 1]
MirrorBeforeAt(t, screen_before, c) == screen_before[t.width * c[2] + c[1] + 1]

\* C7: show_message followed at once by hide_message leaves the device
\* showing, on every cell of the message's box, what the mirror buffer held
\* before the message; the mirror buffer is what it was and no message is
\* active.
C7_ShowHideRoundTrip ==
    [][ (tcall.op = "show_message" /\ tcall'.op = "hide_message") =>
          /\ \A c \in BoxCells(term, tcall.lines) :
                 DeviceAt(term', c) = MirrorBeforeAt(term, tcall.screen_before, c)
          /\ term.screen = tcall.screen_before
          /\ term'.screen = tcall.screen_before
          /\ term'.current_msg = NoneOpt ]_vars

\* a message shown over a printed character has just been hidden
C7_Witness ==
    /\ tcall.op = "hide_message"
    /\ tcall.op_before = "show_message"
    /\ tcall.msg_before # NoneOpt
    /\ \E c \in RectCells(tcall.msg_before[1].top_left,
                          tcall.msg_before[1].width,
                          tcall.msg_before[1].height) :
           MirrorAt(term, c) # Blank /\ DeviceAt(term, c) = MirrorAt(term, c)

\* C8: at most one overlay is recorded as active, and every device cell
\* outside its rectangle (every device cell without one) shows the character
\* of the mirror buffer.
C8_DeviceMatchesMirror ==
    /\ Len(term.current_msg) <= 1
    /\ \A c \in Cells(term.width, term.height) \ ActiveCells(term) :
           DeviceAt(term, c) = MirrorAt(term, c)

\* a message has just replaced one whose box covered a printed character
\* that the new box does not cover
C8_Witness ==
    /\ tcall.op = "show_message"
    /\ tcall.msg_before # NoneOpt
    /\ \E c \in RectCells(tcall.msg_before[1].top_left,
                          tcall.msg_before[1].width,
                          tcall.msg_before[1].height) \ ActiveCells(term) :
           MirrorAt(term, c) # Blank

(***************************************************************************)
(* Claims about SnakeGame, checked under GameSpec.                         *)
(***************************************************************************)
\* the cells of the arena interior of a game on a w x h terminal
GameInterior == (1..(game.width - 2)) \X (1..(game.height - 2))

\* a round is on or has just ended: the apple and the snake are play's
InRound == pc \in {"tick", "ended"}

\* C9: what spawn_apple has just returned is a cell of the arena interior
\* that is not in the body it was called with, and it is None exactly when
\* every interior cell is in that body; and during a round the apple is no
\* cell of the body, except the head's when the snake has eaten the last
\* apple there was room for.
C9_SpawnApple ==
    /\ gcall.spawn # NoneOpt =>
           LET returned == gcall.spawn[1]
           IN  /\ returned # NoneOpt =>
                      /\ returned[1] \in GameInterior
                      /\ ~Contains(snake.body, returned[1])
               /\ returned = NoneOpt <=>
                      \A c \in GameInterior : Contains(snake.body, c)
    /\ InRound =>
           /\ apple # NoneOpt
           /\ Contains(snake.body, apple[1]) =>
                  /\ apple[1] = HeadOf(snake)
                  /\ gcall.stepped
                  /\ gcall.spawn = Some(NoneOpt)

\* the snake fills the arena and spawn_apple has returned None
C9_Witness ==
    /\ pc = "ended"
    /\ gcall.spawn = Some(NoneOpt)
    /\ \A c \in GameInterior : Contains(snake.body, c)

\* C10: the score a game step computes is not negative, and not lower than
\* the score the previous game step of the round computed.
C10_ScoreMonotone ==
    [][gcall'.stepped =>
           /\ score' # NoneOpt
           /\ score'[1] >= 0
           /\ score # NoneOpt => score'[1] >= score[1]]_vars

\* a game step has computed a score above the one of the round's first step
C10_Witness ==
    /\ gcall.stepped
    /\ score # NoneOpt
    /\ score[1] >= 1

\* C11: the score line of the overlay that ends a round shows the number of
\* apples the snake ate in the round.
C11_OverlayScoreIsApplesEaten ==
    pc = "ended" =>
        /\ overlay # NoneOpt
        /\ overlay[1][2] = "Score: " \o ToString(eaten)

(***************************************************************************)
(* Claims about the step counter, checked under TicksSpec.                 *)
(***************************************************************************)
\* max(10 - floor(s / 7), 1)
HorizontalTicks(s) == IF 10 - s \div 7 > 1 THEN 10 - s \div 7 ELSE 1

\* n multiplied by 1.35 and rounded up: the least k with k >= 1.35 n
TimesRoundedUp(n) == CHOOSE k \in 0..(2 * n) :
                         100 * k >= 135 * n /\ 100 * (k - 1) < 135 * n

\* C12: a game step of score s sets the step counter to
\* max(10 - floor(s/7), 1), and to that value times 1.35 rounded up when the
\* snake travels Up or Down; horizontally that is 10 for s = 0, 9 for s = 7
\* and 1 for every s >= 70; and the counter is at least 1 at every tick, so
\* that its decrement does not go below 0.
C12_StepCounter ==
    /\ [](ticks_until_step >= 1)
    /\ [][gcall'.stepped =>
            LET s == score'[1]
                vertical == snake'.direction \in {"Up", "Down"}
            IN  /\ ticks_until_step' =
                       IF vertical THEN TimesRoundedUp(HorizontalTicks(s))
                       ELSE HorizontalTicks(s)
                /\ ~vertical /\ s = 0 => ticks_until_step' = 10
                /\ ~vertical /\ s = 7 => ticks_until_step' = 9
                /\ ~vertical /\ s >= 70 => ticks_until_step' = 1]_vars

\* a vertical step of score 70 has set the counter, to 2
C12_Witness ==
    /\ gcall.stepped
    /\ score = Some(70)
    /\ snake.direction = "Up"
    /\ ticks_until_step = 2

(***************************************************************************)
(* Claims about the keys, checked under InputSpec and InputFairSpec.       *)
(***************************************************************************)
\* the direction a key asks for: w a s d and the arrow keys
KeyAsksFor(ev) ==
    CASE ev.code \in {"w", "Up"}    -> "Up"
      [] ev.code \in {"a", "Left"}  -> "Left"
      [] ev.code \in {"s", "Down"}  -> "Down"
      [] ev.code \in {"d", "Right"} -> "Right"
      [] OTHER                      -> "None"

\* the direction the latest direction key of q asks for ("None" without one)
LatestAsked(q) ==
    LET asking == {i \in 1..Len(q) : KeyAsksFor(q[i]) # "None"}
    IN  IF asking = {} THEN "None"
        ELSE KeyAsksFor(q[CHOOSE i \in asking : \A j \in asking : j <= i])

IsCtrlC(ev) == ev.code = "c" /\ ev.ctrl
HasCtrlC(q) == \E i \in 1..Len(q) : IsCtrlC(q[i])
EscCount(q) == Cardinality({i \in 1..Len(q) : q[i].code = "Esc"})

\* the step is a tick of play's loop (it reads the queue; pressing a key
\* lengthens it) that does not read Ctrl+C
TickWithoutCtrlC ==
    pc = "tick" /\ Len(queue') <= Len(queue) /\ ~HasCtrlC(queue)

\* C13: a tick on which the game is paused makes no game step and leaves
\* the snake, the apple and the step counter as they are, whatever keys it
\* reads; it still reads them all (a direction key becomes the pending
\* direction, and without an Esc the game stays paused); and a paused game
\* that reads an Esc is resumed on that tick, the overlay hidden and the
\* countdown going on from the counter value the pause kept.
C13_PausedTick ==
    [][TickWithoutCtrlC =>
          /\ game'.paused =>
                 /\ pc' = "tick"
                 /\ ~gcall'.stepped
                 /\ snake' = snake
                 /\ apple' = apple
                 /\ ticks_until_step' = ticks_until_step
                 /\ steps' = steps
                 /\ queue' = <<>>
                 /\ LatestAsked(queue) # "None" =>
                        dir_change' = LatestAsked(queue)
          /\ game.paused /\ EscCount(queue) = 0 => game'.paused
          /\ game.paused /\ EscCount(queue) = 1 =>
                 /\ ~game'.paused
                 /\ pc' = "tick" => overlay' = NoneOpt
                 /\ IF ticks_until_step = 1
                    THEN gcall'.stepped
                    ELSE /\ ticks_until_step' = ticks_until_step - 1
                         /\ snake' = snake]_vars

\* the game is paused in the middle of a countdown, with a direction pending
\* and all keys read
C13_Witness ==
    /\ pc = "tick"
    /\ game.paused
    /\ overlay # NoneOpt
    /\ dir_change = "Up"
    /\ queue = <<>>
    /\ 1 < ticks_until_step /\ ticks_until_step < TICKS_UNTIL_UPDATE

\* the program reads one key at a blocking read (show_intro's, or the one
\* after a round): the queue loses its first key
BlockingRead ==
    pc \in {"intro", "ended"} /\ queue # <<>> /\ queue' = Tail(queue)

\* the program has exited with the terminal restored
ExitedRestored == pc' = "exited" /\ ~term'.setup

\* the round cannot go on in the model: its bound on game steps is reached
RoundCutOff == pc = "tick" /\ steps >= MaxSteps

\* C14: a blocking read that reads Ctrl+C, and a tick of play's loop that
\* reads Ctrl+C among its keys (paused or not), ends the process, and the
\* terminal is restored when it does; a blocking read of any other key does
\* not end the process; the process ends only with the terminal restored; and
\* a Ctrl+C that has been pressed is read in the end, ending the process.
C14_CtrlCExits ==
    /\ [][/\ BlockingRead /\ IsCtrlC(Head(queue)) => ExitedRestored
          /\ BlockingRead /\ ~IsCtrlC(Head(queue)) => pc' = "play"
          /\ pc = "tick" /\ Len(queue') <= Len(queue) /\ HasCtrlC(queue) =>
                 ExitedRestored
          /\ pc' = "exited" => ~term'.setup]_vars
    /\ (HasCtrlC(queue) /\ ~RoundCutOff) ~> (pc = "exited")

\* the process has exited from a paused game, and the terminal is restored
C14_Witness ==
    /\ pc = "exited"
    /\ game.paused
    /\ overlay # NoneOpt
    /\ ~term.setup

\* the direction pending once a tick has read the queue: the one its latest
\* direction key asks for, and without one what was pending before
PendingAfter(q) ==
    IF LatestAsked(q) # "None" THEN LatestAsked(q) ELSE dir_change

\* C16: every tick that makes no game step, paused or not, leaves pending
\* the direction of the latest direction key it read, and without one what
\* was pending; a game step hands set_direction the direction so pending
\* (the snake turns to it unless it is the reverse of its direction) and
\* leaves none pending; a game step with none pending keeps the snake's
\* direction; and a round starts with none pending.
C16_LatestDirectionKey ==
    [][/\ TickWithoutCtrlC =>
             LET pending == PendingAfter(queue)
             IN  IF gcall'.stepped
                 THEN /\ dir_change' = "None"
                      /\ snake'.direction =
                             IF pending = "None"
                                \/ pending = Opposite(snake.direction)
                             THEN snake.direction ELSE pending
                 ELSE /\ dir_change' = pending
                      /\ snake'.direction = snake.direction
        /\ pc = "play" => dir_change' = "None"]_vars

\* a game step has turned the snake Up, as the later of the direction keys
\* read since the step before asked, and none is pending
C16_Witness ==
    /\ gcall.stepped
    /\ steps >= 2
    /\ snake.direction = "Up"
    /\ dir_change = "None"
    /\ queue = <<>>

(***************************************************************************)
(* Claims about the game step, checked under GameSpec.                     *)
(***************************************************************************)
IsVertical(direction) == direction \in {"Up", "Down"}

\* the counter a game step of score s sets when `direction` decides the
\* scaling
ScaledBy(s, direction) ==
    IF IsVertical(direction) THEN TimesRoundedUp(HorizontalTicks(s))
    ELSE HorizontalTicks(s)

\* C15 as stated: a game step scales the counter it sets by the direction
\* the snake has before the step's pending direction is applied.
C15_AsStated ==
    [][gcall'.stepped =>
           ticks_until_step' = ScaledBy(score'[1], snake.direction)]_vars

\* C15: a game step scales the counter it sets by the direction the snake
\* has once the step's pending direction is applied, the direction of the
\* step's move: a step that turns the snake from horizontal to vertical
\* scales the counter, and one that turns it from vertical to horizontal
\* does not.
C15_ScalingAfterDirection ==
    [][gcall'.stepped =>
           /\ ticks_until_step' = ScaledBy(score'[1], snake'.direction)
           /\ ~IsVertical(snake.direction) /\ IsVertical(snake'.direction) =>
                  ticks_until_step' > HorizontalTicks(score'[1])
           /\ IsVertical(snake.direction) /\ ~IsVertical(snake'.direction) =>
                  ticks_until_step' = HorizontalTicks(score'[1])]_vars

\* a game step has turned the snake from Right to Up, moved it, and set the
\* counter to 14
C15_Witness ==
    /\ pc = "tick"
    /\ gcall.stepped
    /\ snake.direction = "Up"
    /\ res.kind = "Moved"
    /\ res.new_head = <<res.old_head[1], res.old_head[2] - 1>>
    /\ snake.body[Len(snake.body) - 2][2] = res.old_head[2]
    /\ score = Some(0)
    /\ ticks_until_step = 14

\* the cell the snake had its head on before its latest move (before any
\* move of a round, the cell behind the head)
Neck(s) == s.body[Len(s.body) - 1]

\* C17: the direction of a game step's move is not the reverse of the
\* direction of the move before it (of the direction the round began with,
\* for the first), the cell the step moves the head to, or crashes into, is
\* not the snake's neck, and so a step that returns Moved has not moved the
\* head onto the neck.
C17_NoReversal ==
    [][gcall'.stepped =>
           /\ snake'.direction # Opposite(snake.direction)
           /\ Ahead([snake EXCEPT !.direction = snake'.direction]) # Neck(snake)
           /\ res'.kind = "Moved" => res'.new_head # Neck(snake)]_vars

\* the second move of a round has gone Left, after a first move Up from a
\* snake laid out to the Right
C17_Witness ==
    /\ pc = "tick"
    /\ gcall.stepped
    /\ steps = 2
    /\ res.kind = "Moved"
    /\ snake.direction = "Left"
    /\ Neck(snake)[2] = HeadOf(snake)[2]
    /\ snake.body[Len(snake.body) - 2][2] = HeadOf(snake)[2] + 1

(***************************************************************************)
(* Claims about the picture of the round, checked under GameSpec and       *)
(* RoundSpec.                                                              *)
(***************************************************************************)
\* C18: while a round goes on, after its start and after every game step
\* that does not end it, the mirror buffer holds the apple character on the
\* apple's cell.
C18_AppleStaysDrawn ==
    pc = "tick" => MirrorAt(term, apple[1]) = APPLE_CHAR

\* the head glyph of a direction
HeadGlyph(direction) ==
    CASE direction = "Up"    -> "^"
      [] direction = "Down"  -> "v"
      [] direction = "Left"  -> "<"
      [] direction = "Right" -> ">"

\* C19: while a round goes on, after its start and after every game step
\* that does not end it, the mirror buffer holds the head glyph of the
\* snake's direction on the head's cell, the body glyph on every other cell
\* of the body, and a blank on every cell of the arena interior that is
\* neither a cell of the body nor the apple's.
C19_MirrorAgreesWithSnake ==
    pc = "tick" =>
        /\ MirrorAt(term, HeadOf(snake)) = HeadGlyph(snake.direction)
        /\ \A i \in 1..Len(snake.body) :
               snake.body[i] # HeadOf(snake) =>
                   MirrorAt(term, snake.body[i]) = SNAKE_BODY_CHAR
        /\ \A c \in GameInterior :
               ~Contains(snake.body, c) /\ c # apple[1] =>
                   MirrorAt(term, c) = Blank

(***************************************************************************)
(* Claims about the pause, checked under GameSpec.                         *)
(***************************************************************************)
\* C20: in the tick loop of a round the game is paused exactly when a
\* message is shown, and that message is the Paused one; a round that has
\* ended is not paused (and shows its game-over message); and play, whether
\* it starts the first round or a later one over the message of the round
\* before, enters the tick loop not paused and with no message shown.
C20_PausedIffOverlay ==
    /\ [](/\ pc = "tick" =>
               /\ game.paused <=> overlay # NoneOpt
               /\ game.paused => overlay = Some(Game_paused_lines)
          /\ pc = "ended" => ~game.paused /\ overlay # NoneOpt
          /\ pc = "play" => ~game.paused)
    /\ [][pc = "play" =>
              pc' = "tick" /\ ~game'.paused /\ overlay' = NoneOpt]_vars

\* a round is paused after its second game step, the Paused message shown
C20_Witness ==
    /\ pc = "tick"
    /\ steps = 2
    /\ game.paused
    /\ overlay = Some(Game_paused_lines)

====
